---------------------------- MODULE Spec2Model ----------------------------
(***************************************************************************)
(* The App component of the Big Five quiz (src/unnamed/part_001), its      *)
(* question catalog (src/unnamed/part_000) and its types (src/src/types.ts)*)
(* as a state machine.                                                     *)
(*                                                                         *)
(* The state is the component's useState cells plus the requests that are  *)
(* awaiting the generative-AI service.  The operations are the event       *)
(* handlers, each reachable only through the element that carries it, so   *)
(* every user action is guarded by the condition under which its element   *)
(* is rendered, and the continuation of runAnalysis after its await.       *)
(*                                                                         *)
(* Numbers: a trait score is (posVal + (4 - negVal)) / 2, a multiple of    *)
(* one half.  Scores are represented by their numerator in halves (0..8),  *)
(* so 4.0 is 8 and 2.5 is 5; the division by two is exact in IEEE doubles. *)
(***************************************************************************)
EXTENDS Integers, Sequences, FiniteSets, TLC

(***************************************************************************)
(* Bounds of the model.                                                    *)
(***************************************************************************)
\* submitAnswer events per questionnaire (between two resets) that replace
\* an answer already recorded; first answers are not limited
MaxEdits == 1
\* requests awaiting the service at once that the model can hold
MaxPending == 2
\* answer changes explored from a complete questionnaire in SpecScorer
MaxScorerEdits == 2

(***************************************************************************)
(* Program constants.                                                      *)
(***************************************************************************)
\* the largest of the five answer buttons 0..4, and the 4 of (4 - negVal)
MaxAnswer == 4
\* Object.keys(answers).length < 10
RequiredAnswers == 10

Traits == {"E", "A", "C", "N", "O"}

\* a catalog whose question 9 is marked positive
QUESTIONS_twoPositiveN ==
  << [id |-> 1,  trait |-> "E", isPositive |-> TRUE],
     [id |-> 2,  trait |-> "A", isPositive |-> TRUE],
     [id |-> 3,  trait |-> "C", isPositive |-> TRUE],
     [id |-> 4,  trait |-> "N", isPositive |-> TRUE],
     [id |-> 5,  trait |-> "O", isPositive |-> TRUE],
     [id |-> 6,  trait |-> "E", isPositive |-> FALSE],
     [id |-> 7,  trait |-> "A", isPositive |-> FALSE],
     [id |-> 8,  trait |-> "C", isPositive |-> FALSE],
     [id |-> 9,  trait |-> "N", isPositive |-> TRUE],
     [id |-> 10, trait |-> "O", isPositive |-> FALSE] >>

\* the question catalog (the prompt texts are presentation and left out)
QUESTIONS ==
  << [id |-> 1,  trait |-> "E", isPositive |-> TRUE],
     [id |-> 2,  trait |-> "A", isPositive |-> TRUE],
     [id |-> 3,  trait |-> "C", isPositive |-> TRUE],
     [id |-> 4,  trait |-> "N", isPositive |-> TRUE],
     [id |-> 5,  trait |-> "O", isPositive |-> TRUE],
     [id |-> 6,  trait |-> "E", isPositive |-> FALSE],
     [id |-> 7,  trait |-> "A", isPositive |-> FALSE],
     [id |-> 8,  trait |-> "C", isPositive |-> FALSE],
     [id |-> 9,  trait |-> "N", isPositive |-> FALSE],
     [id |-> 10, trait |-> "O", isPositive |-> FALSE] >>

QuestionIds == {QUESTIONS[i].id : i \in 1..Len(QUESTIONS)}

\* the values of the five answer buttons
AnswerOptions == 0..MaxAnswer

\* the buttons the modelled user presses in Spec: the two ends of the scale
AnswerValues == {0, MaxAnswer}

\* the four fields of an AnalysisResult
Fields == {"nickname", "traits", "jobs", "partner"}

\* the required list of the response schema
RequiredFields == {"nickname", "traits", "jobs", "partner"}

\* JavaScript null
null == [null |-> TRUE]

\* the fixed message of the catch clause ("an error occurred during the
\* analysis, please try again")
ErrorMessage == [message |-> "analysis error, try again"]

(***************************************************************************)
(* The texts the service can answer with.  response.text is absent or      *)
(* empty, is not JSON, or is a JSON object holding some of the fields      *)
(* (each present field holds an opaque string).                            *)
(***************************************************************************)
EmptyText == [kind |-> "empty"]
MalformedText == [kind |-> "malformed"]
ObjectText(S) == [kind |-> "object", fields |-> S]

ResponseTexts ==
  { EmptyText, MalformedText, ObjectText({}), ObjectText(Fields),
    ObjectText(Fields \ {"jobs"}) }

\* response.text || '{}'
TextOrEmptyObject(text) ==
  IF text.kind = "empty" THEN ObjectText({}) ELSE text

\* JSON.parse: throws on a text that is not JSON, otherwise yields the object
\* the text denotes, with exactly the fields the text holds
JSONParse(text) ==
  IF text.kind = "malformed"
    THEN [threw |-> TRUE]
    ELSE [threw |-> FALSE, value |-> [f \in text.fields |-> "text"]]

VARIABLES
  answers,      \* useState<Record<number, number>>({})
  isAnalyzing,  \* useState(false)
  analysis,     \* useState<AnalysisResult | null>(null)
  error,        \* useState<string | null>(null)
  showResults,  \* useState(false)
  pending,      \* the generateContent calls awaited, oldest first
  shownFor,     \* history: the request whose response is stored in analysis
  edits,        \* history: answers replaced since the form was last empty
  lastOp        \* history: the operation that led to this state

vars == << answers, isAnalyzing, analysis, error, showResults, pending,
           shownFor, edits, lastOp >>

\* the state cells of the component
session == << answers, isAnalyzing, analysis, error, showResults >>

NoText == [kind |-> "none"]
Op(name) == [op |-> name, text |-> NoText]
OpText(name, text) == [op |-> name, text |-> text]

EmptyAnswers == [k \in {} |-> 0]

(***************************************************************************)
(* The Scorer (the scores memo).                                           *)
(***************************************************************************)
\* a find that looks at the trait only
FindQuestion_ignoresPolarity(trait, positive) ==
  LET matches == { i \in 1..Len(QUESTIONS) : QUESTIONS[i].trait = trait }
  IN QUESTIONS[CHOOSE i \in matches : \A j \in matches : i <= j]

\* QUESTIONS.find(q => q.trait === trait && q.isPositive === positive):
\* the first matching element
FindQuestion(trait, positive) ==
  LET matches == { i \in 1..Len(QUESTIONS) :
                     QUESTIONS[i].trait = trait
                     /\ QUESTIONS[i].isPositive = positive }
  IN QUESTIONS[CHOOSE i \in matches : \A j \in matches : i <= j]

\* the negative answer averaged in without being reflected
calculateTrait_noReflection(trait) ==
  answers[FindQuestion(trait, TRUE).id] + answers[FindQuestion(trait, FALSE).id]

\* twice the value the code returns: the code's (posVal + (4 - negVal)) / 2
\* in halves
calculateTrait(trait) ==
  LET posQ == FindQuestion(trait, TRUE)
      negQ == FindQuestion(trait, FALSE)
      posVal == answers[posQ.id]
      negVal == answers[negQ.id]
  IN posVal + (MaxAnswer - negVal)

\* the completeness test written with <= for <
scores_offByOne ==
  IF Cardinality(DOMAIN answers) <= RequiredAnswers
    THEN null
    ELSE [t \in Traits |-> calculateTrait(t)]

scores ==
  IF Cardinality(DOMAIN answers) < RequiredAnswers
    THEN null
    ELSE [t \in Traits |-> calculateTrait(t)]

allAnswered == Cardinality(DOMAIN answers) = Len(QUESTIONS)

\* Number.prototype.toFixed(1) of a score given in halves: the integer part
\* and the one decimal digit
toFixed1(halves) == << halves \div 2, 5 * (halves % 2) >>

\* the contents of the request: the five scores as the prompt prints them
\* (the instructions and the response schema are the same in every request)
BuildRequest(s) == [t \in Traits |-> toFixed1(s[t])]

(***************************************************************************)
(* Rendering conditions.                                                   *)
(***************************************************************************)
\* the question list is the !showResults branch
questionsRendered == ~showResults

\* the trigger button rendered during the analysis too
triggerRendered_always == ~showResults

\* the trigger button replaces the loading panel when !isAnalyzing
triggerRendered == ~showResults /\ ~isAnalyzing

\* the reset button is part of the results branch
resetRendered == showResults

(***************************************************************************)
(* The handlers.                                                           *)
(***************************************************************************)
\* an answer that also takes the error message away
handleAnswer_clearsError(questionId, value) ==
  /\ answers' = [k \in DOMAIN answers \cup {questionId} |->
                   IF k = questionId THEN value ELSE answers[k]]
  /\ error' = null
  /\ UNCHANGED << isAnalyzing, analysis, showResults, pending, shownFor >>

\* an answer that also reaches the request already made
handleAnswer_rebuildsRequest(questionId, value) ==
  /\ answers' = [k \in DOMAIN answers \cup {questionId} |->
                   IF k = questionId THEN value ELSE answers[k]]
  /\ pending' = [j \in 1..Len(pending) |-> BuildRequest(scores')]
  /\ UNCHANGED << isAnalyzing, analysis, error, showResults, shownFor >>

\* a second press of the selected button taking the answer back
handleAnswer_toggle(questionId, value) ==
  /\ answers' = IF questionId \in DOMAIN answers /\ answers[questionId] = value
                  THEN [k \in DOMAIN answers \ {questionId} |-> answers[k]]
                  ELSE [k \in DOMAIN answers \cup {questionId} |->
                          IF k = questionId THEN value ELSE answers[k]]
  /\ UNCHANGED << isAnalyzing, analysis, error, showResults, pending, shownFor >>

\* setAnswers(prev => ({ ...prev, [questionId]: value }))
handleAnswer(questionId, value) ==
  /\ answers' = [k \in DOMAIN answers \cup {questionId} |->
                   IF k = questionId THEN value ELSE answers[k]]
  /\ UNCHANGED << isAnalyzing, analysis, error, showResults, pending, shownFor >>

\* runAnalysis without its setError(null)
runAnalysis_keepsError ==
  IF scores = null
    THEN UNCHANGED << session, pending, shownFor >>
    ELSE /\ isAnalyzing' = TRUE
         /\ pending' = Append(pending, BuildRequest(scores))
         /\ UNCHANGED << answers, analysis, error, showResults, shownFor >>

\* runAnalysis up to its await
runAnalysis ==
  IF scores = null
    THEN UNCHANGED << session, pending, shownFor >>
    ELSE /\ isAnalyzing' = TRUE
         /\ error' = null
         /\ pending' = Append(pending, BuildRequest(scores))
         /\ UNCHANGED << answers, analysis, showResults, shownFor >>

RemoveAt(s, i) == [j \in 1..(Len(s) - 1) |-> IF j < i THEN s[j] ELSE s[j + 1]]

\* a text that is not JSON answered by issuing the call again
runAnalysisResolved_retries(i, text) ==
  LET parsed == JSONParse(TextOrEmptyObject(text))
  IN IF parsed.threw
       THEN /\ pending' = Append(RemoveAt(pending, i), pending[i])
            /\ UNCHANGED << answers, isAnalyzing, analysis, error, showResults,
                            shownFor >>
       ELSE /\ analysis' = parsed.value
            /\ showResults' = TRUE
            /\ shownFor' = pending[i]
            /\ isAnalyzing' = FALSE
            /\ pending' = RemoveAt(pending, i)
            /\ UNCHANGED << answers, error >>

\* setIsAnalyzing(false) at the end of the try block, not in a finally clause
runAnalysisResolved_flagKept(i, text) ==
  LET parsed == JSONParse(TextOrEmptyObject(text))
  IN /\ IF parsed.threw
          THEN /\ error' = ErrorMessage
               /\ UNCHANGED << analysis, showResults, shownFor, isAnalyzing >>
          ELSE /\ analysis' = parsed.value
               /\ showResults' = TRUE
               /\ shownFor' = pending[i]
               /\ isAnalyzing' = FALSE
               /\ UNCHANGED error
     /\ pending' = RemoveAt(pending, i)
     /\ UNCHANGED answers

\* runAnalysis after its await, the call pending[i] fulfilled with text
runAnalysisResolved(i, text) ==
  LET parsed == JSONParse(TextOrEmptyObject(text))
  IN /\ IF parsed.threw
          THEN /\ error' = ErrorMessage
               /\ UNCHANGED << analysis, showResults, shownFor >>
          ELSE /\ analysis' = parsed.value
               /\ showResults' = TRUE
               /\ shownFor' = pending[i]
               /\ UNCHANGED error
     /\ isAnalyzing' = FALSE
     /\ pending' = RemoveAt(pending, i)
     /\ UNCHANGED answers

\* the failure path without the finally clause
runAnalysisRejected_noFinally(i) ==
  /\ error' = ErrorMessage
  /\ pending' = RemoveAt(pending, i)
  /\ UNCHANGED << answers, isAnalyzing, analysis, showResults, shownFor >>

\* runAnalysis after its await, the call pending[i] rejected
runAnalysisRejected(i) ==
  /\ error' = ErrorMessage
  /\ isAnalyzing' = FALSE
  /\ pending' = RemoveAt(pending, i)
  /\ UNCHANGED << answers, analysis, showResults, shownFor >>

\* a reset that forgets setShowResults(false)
reset_keepsShowResults ==
  /\ answers' = EmptyAnswers
  /\ analysis' = null
  /\ error' = null
  /\ UNCHANGED << isAnalyzing, showResults, pending >>
  /\ shownFor' = null

\* a reset that forgets setAnswers({})
reset_keepsAnswers ==
  /\ analysis' = null
  /\ showResults' = FALSE
  /\ error' = null
  /\ UNCHANGED << answers, isAnalyzing, pending >>
  /\ shownFor' = null

reset ==
  /\ answers' = EmptyAnswers
  /\ analysis' = null
  /\ showResults' = FALSE
  /\ error' = null
  /\ UNCHANGED << isAnalyzing, pending >>
  /\ shownFor' = null

(***************************************************************************)
(* The events.                                                             *)
(***************************************************************************)
\* a press of one of the answer buttons of a question, the button among
\* those of values and at most max presses on questions already answered
PressAnswer(values, max) ==
  /\ questionsRendered
  /\ \E i \in 1..Len(QUESTIONS), value \in values :
       /\ QUESTIONS[i].id \in DOMAIN answers => edits < max
       /\ handleAnswer(QUESTIONS[i].id, value)
       /\ edits' = IF QUESTIONS[i].id \in DOMAIN answers THEN edits + 1 ELSE edits
  /\ lastOp' = Op("submitAnswer")

SubmitAnswer == PressAnswer(AnswerValues, MaxEdits)

\* the trigger neither disabled nor guarded by the scores test: without
\* scores the prompt's scores.E throws inside the try block
RequestAnalysis_ungated ==
  /\ questionsRendered
  /\ Len(pending) < MaxPending
  /\ IF triggerRendered
       THEN IF scores = null
              THEN /\ error' = ErrorMessage
                   /\ UNCHANGED << answers, isAnalyzing, analysis, showResults,
                                   pending, shownFor >>
                   /\ lastOp' = Op("requestIgnored")
              ELSE /\ runAnalysis
                   /\ lastOp' = Op("requestAccepted")
       ELSE /\ UNCHANGED << session, pending, shownFor >>
            /\ lastOp' = Op("requestIgnored")
  /\ UNCHANGED edits

\* a press where the analysis trigger is: on the button when it is rendered
\* and enabled, otherwise on the loading panel or the disabled button
RequestAnalysis ==
  /\ questionsRendered
  /\ Len(pending) < MaxPending
  /\ IF triggerRendered /\ allAnswered
       THEN /\ runAnalysis
            /\ lastOp' = Op(IF scores = null THEN "requestIgnored"
                                             ELSE "requestAccepted")
       ELSE /\ UNCHANGED << session, pending, shownFor >>
            /\ lastOp' = Op("requestIgnored")
  /\ UNCHANGED edits

\* the service answers a pending call with a text
ServiceResolves ==
  \E i \in 1..Len(pending), text \in ResponseTexts :
    /\ runAnalysisResolved(i, text)
    /\ lastOp' = OpText(IF JSONParse(TextOrEmptyObject(text)).threw
                          THEN "failed" ELSE "succeeded", text)
    /\ UNCHANGED edits

\* the call to the service fails
ServiceRejects ==
  \E i \in 1..Len(pending) :
    /\ runAnalysisRejected(i)
    /\ lastOp' = Op("failed")
    /\ UNCHANGED edits

\* a press of the reset button
Reset ==
  /\ resetRendered
  /\ reset
  /\ edits' = 0
  /\ lastOp' = Op("reset")

Init ==
  /\ answers = EmptyAnswers
  /\ isAnalyzing = FALSE
  /\ analysis = null
  /\ error = null
  /\ showResults = FALSE
  /\ pending = << >>
  /\ shownFor = null
  /\ edits = 0
  /\ lastOp = Op("init")

Next ==
  \/ SubmitAnswer
  \/ RequestAnalysis
  \/ ServiceResolves
  \/ ServiceRejects
  \/ Reset

Spec == Init /\ [][Next]_vars

(***************************************************************************)
(* The answers and the Scorer on their own: the questionnaire starts with  *)
(* its first nine or all ten questions answered, all alike, and any button *)
(* of any question is pressed.                                             *)
(***************************************************************************)
InitScorer ==
  /\ answers \in { [q \in 1..n |-> b] :
                     n \in {RequiredAnswers - 1, RequiredAnswers}, b \in AnswerOptions }
  /\ isAnalyzing = FALSE
  /\ analysis = null
  /\ error = null
  /\ showResults = FALSE
  /\ pending = << >>
  /\ shownFor = null
  /\ edits = 0
  /\ lastOp = Op("init")

ChangeAnswer == PressAnswer(AnswerOptions, MaxScorerEdits)

NextScorer == ChangeAnswer

SpecScorer == InitScorer /\ [][NextScorer]_vars

(***************************************************************************)
(* The component with a service that answers: a call that is awaited is    *)
(* eventually fulfilled or rejected.                                       *)
(***************************************************************************)
SpecFair == Spec /\ WF_vars(ServiceResolves \/ ServiceRejects)

(***************************************************************************)
(* Properties.                                                             *)
(***************************************************************************)
\* the question ids that have a recorded answer
AnsweredIds == { q \in 1..10 : q \in DOMAIN answers }

\* the initial empty Session
SessionIsInitial ==
  /\ answers = EmptyAnswers
  /\ scores = null
  /\ analysis = null
  /\ error = null
  /\ ~showResults
  /\ ~isAnalyzing
  /\ pending = << >>

\* a requestAnalysis() made now would be accepted
Retryable == triggerRendered /\ allAnswered /\ scores # null

\* C1: single-flight.  At most one call to the service is awaited in every
\* reachable state, and a request made while one is awaited is ignored: it
\* changes neither the session nor the calls awaited.
C1_SingleFlight ==
  /\ [](Len(pending) <= 1)
  /\ [][ (isAnalyzing /\ lastOp'.op \in {"requestAccepted", "requestIgnored"})
           => (lastOp'.op = "requestIgnored" /\ UNCHANGED << session, pending >>)
       ]_vars

\* C1 witness: a second request was made while the first is still awaited
C1_SecondRequestInFlight ==
  lastOp.op = "requestIgnored" /\ isAnalyzing /\ Len(pending) = 1

\* C2: a response whose payload lacks one of the four required fields (the
\* empty payload included) ends in the error state: the error is set, no
\* AnalysisResult is stored, the session is not Displaying and can retry.
C2_MissingFieldIsError ==
  ( /\ lastOp.op \in {"succeeded", "failed"}
    /\ lastOp.text.kind \in {"empty", "object"}
    /\ ~(RequiredFields \subseteq TextOrEmptyObject(lastOp.text).fields) )
  => (error = ErrorMessage /\ analysis = null /\ ~showResults /\ Retryable)

\* C3 as stated: reset() can be made in every state, and the state after it
\* is the initial empty Session.
C3_ResetValidInAnyState ==
  /\ ~SessionIsInitial => resetRendered
  /\ lastOp.op = "reset" => SessionIsInitial

\* C3 amended: reset() is made from Displaying only, and the state after it
\* is the initial empty Session: no answers, no Scores, no AnalysisResult,
\* no error, not Displaying, nothing in flight.
C3_ResetRestoresInitial ==
  [][ lastOp'.op = "reset" => (showResults /\ SessionIsInitial') ]_vars

\* C3 witness: reset() has just been made
C3_AfterReset == lastOp.op = "reset" /\ ~showResults

\* C5: the completeness gate.  Scores is absent exactly while fewer than ten
\* distinct question ids have a recorded answer; it becomes defined only by
\* the submitAnswer that records the tenth distinct id; and answering an id
\* that is already answered never completes the set.
C5_CompletenessGate ==
  /\ []((scores = null) <=> (Cardinality(AnsweredIds) < 10))
  /\ [][ (scores = null /\ scores' # null)
           => /\ lastOp'.op = "submitAnswer"
              /\ Cardinality(AnsweredIds) = 9
              /\ \E q \in (1..10) \ AnsweredIds : AnsweredIds' = AnsweredIds \cup {q}
       ]_vars
  /\ [][ (lastOp'.op = "submitAnswer" /\ AnsweredIds' = AnsweredIds /\ scores = null)
           => scores' = null ]_vars

\* C5 witness: nine ids are answered, one of them twice, and Scores is
\* still absent
C5_NineOfTenAfterTenSubmits ==
  /\ lastOp.op = "submitAnswer" /\ edits >= 1
  /\ Cardinality(AnsweredIds) = 9 /\ scores = null

\* the positive-polarity and negative-polarity questions of a trait
PositiveIds(t) ==
  { QUESTIONS[i].id : i \in { j \in 1..Len(QUESTIONS) :
      QUESTIONS[j].trait = t /\ QUESTIONS[j].isPositive } }
NegativeIds(t) ==
  { QUESTIONS[i].id : i \in { j \in 1..Len(QUESTIONS) :
      QUESTIONS[j].trait = t /\ ~QUESTIONS[j].isPositive } }

\* C6: whenever Scores is defined, twice the score of every trait is
\* p + 4 - n for the answers p and n to its positive and negative question,
\* it lies in 0..8 (the score in [0,4]), p=0,n=4 gives 0, p=4,n=0 gives 4 and
\* p=2,n=2 gives 2; and a change of the answers of other traits leaves the
\* score of a trait as it was.
C6_ScoreFormula ==
  /\ [](scores # null =>
          \A t \in Traits : \A qp \in PositiveIds(t), qn \in NegativeIds(t) :
            LET p == answers[qp]
                n == answers[qn]
            IN /\ scores[t] = p + 4 - n
               /\ scores[t] \in 0..8
               /\ (p = 0 /\ n = 4) => scores[t] = 0
               /\ (p = 4 /\ n = 0) => scores[t] = 8
               /\ (p = 2 /\ n = 2) => scores[t] = 4)
  /\ [][ (scores # null /\ scores' # null) =>
           \A t \in Traits :
             (\A q \in PositiveIds(t) \cup NegativeIds(t) : answers'[q] = answers[q])
               => scores'[t] = scores[t] ]_vars

\* C6 witness: one trait at the top of the scale, another at a fractional
\* score (1.5), after answers were changed
C6_TopAndFractional ==
  /\ lastOp.op = "submitAnswer"
  /\ scores # null
  /\ answers[1] = 4 /\ answers[6] = 0 /\ scores["E"] = 8
  /\ scores["A"] = 3

\* the complete Answer of the scenario
ScenarioAnswer ==
  [q \in 1..10 |-> IF q \in {1, 2, 3, 5} THEN 4 ELSE 0]

\* C7 as stated: for the scenario's Answer the Scorer yields E = 4.0,
\* A = 4.0, C = 4.0 and N = 4.0.
C7_ScenarioAllFour ==
  answers = ScenarioAnswer =>
    (scores["E"] = 8 /\ scores["A"] = 8 /\ scores["C"] = 8 /\ scores["N"] = 8)

\* C7 amended: for the scenario's Answer the Scorer yields E = 4.0, A = 4.0,
\* C = 4.0 and N = 2.0.
C7_ScenarioScores ==
  answers = ScenarioAnswer =>
    (scores["E"] = 8 /\ scores["A"] = 8 /\ scores["C"] = 8 /\ scores["N"] = 4)

\* C7 witness: the scenario's Answer has been submitted
C7_ScenarioSubmitted ==
  answers = ScenarioAnswer /\ lastOp.op = "submitAnswer" /\ scores # null

\* C8: when the invocation fails (the call is rejected, or its text is not
\* JSON) the in-flight flag is cleared, the fixed message is stored, no
\* AnalysisResult is stored, the session is not Displaying, Answer and Scores
\* are as before, and a requestAnalysis() made next is accepted.
C8_FailureIsRetryable ==
  [][ lastOp'.op = "failed" =>
        /\ ~isAnalyzing'
        /\ error' = ErrorMessage
        /\ analysis' = null
        /\ ~showResults'
        /\ answers' = answers
        /\ scores' = scores
        /\ Retryable' ]_vars

\* C8 witness: an invocation has just failed
C8_AfterFailure ==
  lastOp.op = "failed" /\ error = ErrorMessage /\ pending = << >>

\* C9: a submitAnswer made while an analysis is in flight records the answer
\* and leaves the request in flight as it is; the request carries the Scores
\* of the moment requestAnalysis() was accepted.
C9_RequestIsSnapshot ==
  /\ [][ lastOp'.op = "requestAccepted" =>
           /\ Len(pending') = Len(pending) + 1
           /\ \A t \in Traits :
                pending'[Len(pending')][t] = << scores[t] \div 2, 5 * (scores[t] % 2) >>
       ]_vars
  /\ [][ (isAnalyzing /\ lastOp'.op = "submitAnswer") =>
           /\ pending' = pending
           /\ isAnalyzing'
           /\ \E q \in 1..10 : q \in DOMAIN answers' /\ \A k \in DOMAIN answers \ {q} :
                k \in DOMAIN answers' /\ answers'[k] = answers[k]
       ]_vars

\* C9 witness: an answer was changed during the flight, so that the Scores
\* differ from those the request carries
C9_EditedInFlight ==
  /\ isAnalyzing /\ lastOp.op = "submitAnswer" /\ Len(pending) = 1
  /\ \E t \in Traits : pending[1][t] # << scores[t] \div 2, 5 * (scores[t] % 2) >>

\* C10: submitAnswer(q, v) records v for q, keeps the recorded answer of every
\* other id, and made for a q that already holds v leaves Answer and Scores
\* as they are.
C10_LastWriteWins ==
  [][ \A q \in 1..10, v \in 0..4 :
        handleAnswer(q, v) =>
          /\ DOMAIN answers' = DOMAIN answers \cup {q}
          /\ answers'[q] = v
          /\ \A k \in DOMAIN answers \ {q} : answers'[k] = answers[k]
          /\ (q \in DOMAIN answers /\ answers[q] = v)
               => (answers' = answers /\ scores' = scores)
    ]_vars

\* C10 witness: two answers were submitted to a questionnaire that was
\* answered alike, one filling the open question and one replacing an answer
C10_Overwritten ==
  /\ lastOp.op = "submitAnswer" /\ edits >= 1
  /\ Cardinality(AnsweredIds) = 10
  /\ answers[10] = 0 /\ answers[1] = 3 /\ answers[2] = 4

\* C11: a requestAnalysis() made while Scores is absent does nothing: no
\* call is issued, the in-flight flag stays false, and Answer, AnalysisResult
\* and error are as before.
C11_RequestWithoutScores ==
  [][ (scores = null /\ lastOp'.op \in {"requestAccepted", "requestIgnored"})
        => /\ lastOp'.op = "requestIgnored"
           /\ pending' = pending /\ pending' = << >>
           /\ ~isAnalyzing'
           /\ answers' = answers /\ analysis' = analysis /\ error' = error
    ]_vars

\* C11 witness: a request was made on an incomplete questionnaire
C11_RequestOnIncomplete ==
  /\ lastOp.op = "requestIgnored" /\ scores = null
  /\ Cardinality(AnsweredIds) = 9 /\ ~isAnalyzing /\ pending = << >>

\* C12: no partial result is shown.  In every state in which the session is
\* Displaying, AnalysisResult is present and holds the four fields nickname,
\* traits, jobs and partner.
C12_NoPartialResult ==
  showResults => (analysis # null /\ RequiredFields \subseteq DOMAIN analysis)

\* C13: a session that is Displaying stays Displaying under every operation
\* but reset(), and reset() takes it to the initial Collecting state.
C13_DisplayingUntilReset ==
  [][ showResults =>
        IF lastOp'.op = "reset" THEN SessionIsInitial' ELSE showResults' ]_vars

\* C13 witness: the session is Displaying the result of a request
C13_Displaying ==
  showResults /\ analysis # null /\ shownFor # null /\ lastOp.op = "succeeded"

\* C14: the catalog is valid.  It has ten questions whose ids are distinct
\* and are exactly 1..10, every question belongs to one of the five traits,
\* and every trait has exactly one positive and exactly one negative
\* question, which is the question the Scorer's lookup finds.
C14_CatalogValid ==
  /\ Len(QUESTIONS) = 10
  /\ \A i, j \in 1..Len(QUESTIONS) : i # j => QUESTIONS[i].id # QUESTIONS[j].id
  /\ { QUESTIONS[i].id : i \in 1..Len(QUESTIONS) } = 1..10
  /\ \A i \in 1..Len(QUESTIONS) : QUESTIONS[i].trait \in {"E", "A", "C", "N", "O"}
  /\ \A t \in {"E", "A", "C", "N", "O"}, positive \in BOOLEAN :
       /\ Cardinality({ i \in 1..Len(QUESTIONS) :
                          QUESTIONS[i].trait = t
                          /\ QUESTIONS[i].isPositive = positive }) = 1
       /\ FindQuestion(t, positive).trait = t
       /\ FindQuestion(t, positive).isPositive = positive
       /\ scores # null => FindQuestion(t, positive).id \in DOMAIN answers

\* C14 witness: the Scorer has looked up the pair of every trait
C14_AllTraitsScored ==
  /\ lastOp.op = "submitAnswer" /\ scores # null
  /\ \A t \in {"E", "A", "C", "N", "O"} : scores[t] \in 0..8

\* C15: an accepted requestAnalysis() issues one call, and the completion of
\* a call issues none; the completion clears the in-flight flag and either
\* stores the result and moves to Displaying, storing no error, or stores
\* the error, storing no result and not moving to Displaying.
C15_OneInvocationOneOutcome ==
  [][ /\ lastOp'.op = "requestAccepted" => Len(pending') = Len(pending) + 1
      /\ lastOp'.op \in {"succeeded", "failed"} =>
           /\ Len(pending') = Len(pending) - 1
           /\ ~isAnalyzing'
           /\ IF lastOp'.op = "succeeded"
                THEN /\ analysis' # null
                     /\ showResults'
                     /\ error' = null
                ELSE /\ error' = ErrorMessage
                     /\ analysis' = null
                     /\ ~showResults'
    ]_vars

\* C15 witness: a call was completed by a text that is not JSON
C15_TextNotJson ==
  /\ lastOp.op = "failed" /\ lastOp.text = MalformedText
  /\ ~isAnalyzing /\ pending = << >> /\ analysis = null

\* C16: in every Displaying state the Scores shown with the result, those of
\* the current Answer, are the Scores the request carried whose response is
\* displayed.
C16_ShownScoresAreSentScores ==
  showResults => (scores # null /\ BuildRequest(scores) = shownFor)

\* C17: with a service that answers every call, an analysis in flight is
\* followed by a state in which the in-flight flag is false, and the flag is
\* cleared by the completion of the call on the success and on the failure
\* path.
C17_FlagEventuallyCleared ==
  /\ isAnalyzing ~> ~isAnalyzing
  /\ [][ lastOp'.op \in {"succeeded", "failed"} => (isAnalyzing /\ ~isAnalyzing')
       ]_vars

\* C17 witness: a call was rejected and the flag is cleared
C17_ClearedAfterRejection ==
  lastOp = Op("failed") /\ ~isAnalyzing /\ pending = << >>

\* C18: an accepted requestAnalysis() leaves no error, the error is absent
\* while an analysis is in flight and while the session is Displaying, and
\* a stored error never coexists with a displayed result.
C18_NoErrorInFlightOrDisplaying ==
  /\ [](/\ isAnalyzing => error = null
        /\ showResults => error = null
        /\ ~(error # null /\ analysis # null))
  /\ [][ lastOp'.op = "requestAccepted" => error' = null ]_vars

\* C18 witness: a request was accepted and is in flight with no error shown
C18_AcceptedWithoutError ==
  lastOp.op = "requestAccepted" /\ isAnalyzing /\ Len(pending) = 1 /\ error = null

\* C19: submitAnswer leaves AnalysisResult, the error, the in-flight flag and
\* the Displaying flag as they are, and a stored error is taken away only by
\* an accepted requestAnalysis() or by reset().
C19_SubmitChangesAnswersOnly ==
  /\ [][ lastOp'.op = "submitAnswer" =>
           /\ analysis' = analysis
           /\ error' = error
           /\ isAnalyzing' = isAnalyzing
           /\ showResults' = showResults ]_vars
  /\ [][ (error # null /\ error' = null) =>
           lastOp'.op \in {"requestAccepted", "reset"} ]_vars

\* C19 witness: an answer was changed after a failed analysis and the error
\* is still stored
C19_ErrorKeptAcrossEdit ==
  lastOp.op = "submitAnswer" /\ error = ErrorMessage /\ edits >= 1 /\ scores # null

=============================================================================
